---- MODULE Spec2Model ----
(***************************************************************************)
(* Model of crates/extension/src/extension_builder.rs: the extension build *)
(* pipeline (compile_extension, compile_rust_extension, compile_grammar,   *)
(* checkout_repo) and the manifest normaliser populate_defaults.           *)
(***************************************************************************)
EXTENDS Naturals, Sequences, FiniteSets, TLC

\* ---------------------------------------------------------------- bounds
\* number of directory entries considered under languages/
NumLangs == 2
\* number of directory entries considered under themes/ and icon_themes/
NumThemes == 1
\* number of grammar name stems; stem 1 also occurs with a dotted suffix
NumGrammars == 1
\* number of distinct (repository, rev) pairs
NumRevs == 2

LangIds == 1..NumLangs
ThemeIds == 1..NumThemes
RevIds == 1..NumRevs

\* ---------------------------------------------------------------- values
NoVersion == "None"
StaleVersion == "Some(caller)"
ParsedVersion == "Some(parsed)"
NoKind == "None"
RustKind == "Some(Rust)"
NoSnippets == "None"
CallerSnippets == "Some(caller)"
JoinedSnippets == "Some(extension_path/snippets.json)"
Malformed == [repository |-> 0, rev |-> 0, path |-> "malformed"]

\* A grammar name: a stem, optionally followed by ".x" (a name with a dot).
GrammarNames == {[stem |-> s, dot |-> d] : s \in 1..NumGrammars, d \in {FALSE}}
                  \cup {[stem |-> 1, dot |-> TRUE]}

\* GrammarManifestEntry { repository, rev, path }
GrammarEntry(k) == [repository |-> k, rev |-> k, path |-> "None"]
GrammarEntries == {GrammarEntry(k) : k \in RevIds}

\* The grammars map iterates in key order: "1" < "1.x" < "2" < ...
NameLess(a, b) == \/ a.stem < b.stem
                  \/ (a.stem = b.stem /\ ~a.dot /\ b.dot)

RECURSIVE SortedNames(_)
SortedNames(S) ==
  IF S = {} THEN <<>>
  ELSE LET least == CHOOSE a \in S : \A b \in S \ {a} : NameLess(a, b)
       IN <<least>> \o SortedNames(S \ {least})

\* ---------------------------------------------------------------- paths
\* A path is either below the extension root as the directory walk yields it
\* (prefixed with extension_path) or relative to it.
DirEntryPath(n) == [prefixed |-> TRUE, n |-> n]
\* Recording the entry's path as read_dir gave it.
StripPrefixKeeps(p) == p
\* Path::strip_prefix(extension_path)
StripPrefix(p) == [prefixed |-> FALSE, n |-> p.n]

\* Path::set_extension("wasm") on grammars/<name>: a dotted suffix of the name
\* is replaced, a name without a dot only gets ".wasm" appended.  A .wasm file
\* is identified by what precedes ".wasm" in its file name.
SetExtensionWasm(name) == [stem |-> name.stem, dot |-> FALSE]
\* The file grammars/<name>.wasm.
NameDotWasm(name) == name

\* Path::file_stem of grammars/<name>.toml: the file name without ".toml".
TomlFile(name) == [name |-> name, ext |-> "toml"]
FileStem(file) == file.name

Range(s) == {s[i] : i \in DOMAIN s}
IsPrefix(s, t) == Len(s) <= Len(t) /\ \A i \in DOMAIN s : t[i] = s[i]

\* Vec::contains
Contains(coll, p) == \E i \in DOMAIN coll : coll[i] = p

\* fs::read_dir yields the entries in an order the platform chooses; it may
\* fail to open the directory ("open") or fail at any later entry (`entry?`,
\* "entry").  Entries the loop body skips have no effect, so a listing
\* enumerates the entries that pass the loop's filter.
InjSeqs(S) ==
  UNION {{s \in [1..k -> S] : \A i, j \in 1..k : i # j => s[i] # s[j]} :
           k \in 0..Cardinality(S)}
Listings(S) ==
  {l \in [seq : InjSeqs(S), fail : {"none", "open", "entry"}] :
     /\ l.fail = "none" => Range(l.seq) = S
     /\ l.fail = "open" => l.seq = <<>>}
NoListing == [seq |-> <<>>, fail |-> "none"]

\* An absent directory and the listings of a directory of the disk layout.
NoDir == [exists |-> FALSE, entries |-> {}, good |-> {}]
DirListings(dir) == IF dir.exists THEN Listings(dir.good) ELSE {NoListing}

\* ------------------------------------------------------ populate_defaults
\* Pushing every listed path, whether the collection holds it or not.
MissingAlways(coll, p) == TRUE
\* `if !coll.contains(&p)`
Missing(coll, p) == ~Contains(coll, p)

\* `if !coll.contains(&p) { coll.push(p) }` for every listed entry, in order.
RECURSIVE PushMissing(_, _)
PushMissing(coll, ids) ==
  IF ids = <<>> THEN coll
  ELSE LET p == StripPrefix(DirEntryPath(Head(ids)))
       IN PushMissing(IF Missing(coll, p) THEN Append(coll, p) ELSE coll,
                      Tail(ids))

\* The legacy loop over grammars/*.toml: parse each file, insert the entry
\* under the file stem unless the map already has that key.  Stops at the
\* first file that does not parse.
RECURSIVE InsertGrammars(_, _, _)
InsertGrammars(grammars, names, tomls) ==
  IF names = <<>> THEN [grammars |-> grammars, ok |-> TRUE]
  ELSE LET file == TomlFile(Head(names))
           name == FileStem(file)
           content == tomls[Head(names)]
       IN IF content = Malformed
          THEN [grammars |-> grammars, ok |-> FALSE]
          ELSE InsertGrammars(
                 IF name \in DOMAIN grammars THEN grammars
                 ELSE [k \in DOMAIN grammars \cup {name} |->
                         IF k = name THEN content ELSE grammars[k]],
                 Tail(names), tomls)

EmptyMap == [k \in {} |-> GrammarEntry(1)]

ListError(l, what) ==
  IF l.fail = "open" THEN <<"failed to list " \o what \o " dir", "io error">>
  ELSE <<"io error">>

\* Clearing the computed fields whatever the schema.
ClearComputedAlways(m) ==
  [m EXCEPT !.languages = <<>>, !.grammars = EmptyMap, !.themes = <<>>]
\* Not clearing the computed fields at all.
ClearComputedNever(m) == m
\* Clearing the computed fields of a legacy manifest, the grammars excepted.
ClearComputedButGrammars(m) ==
  IF m.schema_v0 THEN [m EXCEPT !.languages = <<>>, !.themes = <<>>] ELSE m
\* The legacy (v0) schema clears the computed fields first.
ClearComputed(m) ==
  IF m.schema_v0
  THEN [m EXCEPT !.languages = <<>>, !.grammars = EmptyMap, !.themes = <<>>]
  ELSE m

\* Cargo.toml at the extension root makes the library a Rust library.
DetectLib(m, d) ==
  IF d.cargo_toml THEN [m EXCEPT !.kind = RustKind] ELSE m

\* snippets.json at the extension root is recorded, whatever was there.
DetectSnippets(m, d) ==
  IF d.snippets_json THEN [m EXCEPT !.snippets = JoinedSnippets] ELSE m

\* populate_defaults(manifest, extension_path): the manifest it leaves behind
\* and its result.  ch holds the directory listings the platform returned.
PopulateDefaults(m, d, ch) ==
  LET m1 == DetectLib(ClearComputed(m), d)
      m2 == [m1 EXCEPT !.languages = PushMissing(@, ch.languages.seq)]
      m3 == [m2 EXCEPT !.themes = PushMissing(@, ch.themes.seq)]
      m4 == [m3 EXCEPT !.icon_themes = PushMissing(@, ch.icon_themes.seq)]
      m5 == DetectSnippets(m4, d)
      g  == InsertGrammars(m5.grammars, ch.grammars.seq, d.grammar_tomls)
      m6 == [m5 EXCEPT !.grammars = g.grammars]
  IN IF ch.languages.fail # "none"
     THEN [manifest |-> m2, ok |-> FALSE,
           error |-> ListError(ch.languages, "languages")]
     ELSE IF ch.themes.fail # "none"
     THEN [manifest |-> m3, ok |-> FALSE,
           error |-> ListError(ch.themes, "themes")]
     ELSE IF ch.icon_themes.fail # "none"
     THEN [manifest |-> m4, ok |-> FALSE,
           error |-> ListError(ch.icon_themes, "icon themes")]
     ELSE IF ~m.schema_v0
     THEN [manifest |-> m5, ok |-> TRUE, error |-> <<>>]
     ELSE IF ~g.ok
     THEN [manifest |-> m6, ok |-> FALSE, error |-> <<"toml parse error">>]
     ELSE IF ch.grammars.fail # "none"
     THEN [manifest |-> m6, ok |-> FALSE,
           error |-> ListError(ch.grammars, "grammars")]
     ELSE [manifest |-> m6, ok |-> TRUE, error |-> <<>>]

\* The listings populate_defaults can be handed for a disk layout.  The
\* grammars directory is only listed for the legacy schema.
GrammarsDir(d) ==
  [exists |-> d.grammars_dir, entries |-> DOMAIN d.grammar_tomls,
   good |-> DOMAIN d.grammar_tomls]
\* A directory the walk never gets to, because an earlier listing failed.
Unread == [seq |-> <<>>, fail |-> "unread"]
Reached(earlier, dir) ==
  IF \E l \in earlier : l.fail # "none" THEN {Unread} ELSE DirListings(dir)
ListingChoices(m, d) ==
  UNION {UNION {UNION {
    [languages : {l}, themes : {t}, icon_themes : {i},
     grammars : IF m.schema_v0 THEN Reached({l, t, i}, GrammarsDir(d))
                ELSE {NoListing}] :
    i \in Reached({l, t}, d.icon_themes)} :
    t \in Reached({l}, d.themes)} :
    l \in DirListings(d.languages)}

\* ---------------------------------------------------------- checkout_repo
\* What is at a grammar's working directory grammars/<name>: whether it
\* exists, whether `git init` ran in it, the url of its remote `origin`, the
\* revision fetched and the revision checked out (0: none).
AbsentDir == [exists |-> FALSE, inited |-> FALSE, remote |-> 0,
              fetched |-> 0, head |-> 0]
LeftoverDir == [AbsentDir EXCEPT !.exists = TRUE]

\* How a subprocess ends: it exits zero, exits non-zero, or cannot be spawned.
Exits == {"ok", "nonzero", "spawn"}
\* The outcomes of the steps of one checkout_repo call.
\* A step that is not reached is listed as "ok".
FetchOutcomes ==
  {oc \in [mkdir : BOOLEAN, init : Exits, remote_add : Exits, fetch : Exits,
           checkout : Exits] :
     /\ ~oc.mkdir => oc.init = "ok"
     /\ oc.init # "ok" => oc.remote_add = "ok"
     /\ oc.remote_add # "ok" => oc.fetch = "ok"
     /\ oc.fetch = "spawn" => oc.checkout = "ok"}

\* A step of the build: what ran, for which grammar (NoName: for the
\* extension itself) and whether it succeeded.
NoName == [stem |-> 0, dot |-> FALSE]
Op(op, arg, ok) ==
  [op |-> op, arg |-> arg, ok |-> ok, exit |-> IF ok THEN "ok" ELSE "failed"]
\* A subprocess that was run and how it ended (one of Exits).
Proc(op, arg, exit) ==
  [op |-> op, arg |-> arg, ok |-> exit = "ok", exit |-> exit]

ErrInit == "failed to run git init in directory '{directory}'"
ErrRemoteAdd == "failed to add remote {url} for git repository {git_dir}"
ErrFetch == "failed to fetch revision {rev} in directory '{directory}'"
ErrCheckout ==
  "failed to checkout revision {rev} in directory '{directory}': {stderr}"

\* A fetcher that does not look for the directory first.
AlreadyThereNever(dir) == FALSE
\* `if directory.exists() { return Ok(()) }`
AlreadyThere(dir) == dir.exists

\* A fetcher that ignores the exit status of git checkout.
CheckoutFailedNever(oc) == FALSE
\* `if !checkout_output.status.success()`
CheckoutFailed(oc) == oc.checkout = "nonzero"

\* A fetcher that gives up as soon as git fetch exits non-zero.
FetchAbortsOnNonzero(oc) == oc.fetch # "ok"
\* `.output().context("failed to execute git fetch")?`: only a fetch that
\* cannot be spawned returns here; its exit status is not looked at yet.
FetchAborts(oc) == oc.fetch = "spawn"

\* A fetcher that always blames the fetch for a failed checkout.
ReportsFetchErrorAlways(oc) == TRUE
\* `if !fetch_output.status.success()`, inside the failed-checkout branch
ReportsFetchError(oc) == oc.fetch # "ok"

\* checkout_repo(directory, url, rev) on a directory in state dir: the state
\* it leaves, its result and the operations it ran, in order.
CheckoutRepo(dir, name, url, rev, oc) ==
  LET created == [dir EXCEPT !.exists = TRUE]
      inited == [created EXCEPT !.inited = TRUE]
      remoted == [inited EXCEPT !.remote = url]
      fetched == IF oc.fetch = "ok" THEN [remoted EXCEPT !.fetched = rev]
                 ELSE remoted
      checked == IF oc.checkout = "ok" THEN [fetched EXCEPT !.head = rev]
                 ELSE fetched
      oMkdir == <<Op("create_dir_all", name, oc.mkdir)>>
      oInit == oMkdir \o <<Proc("git init", name, oc.init)>>
      oRemote == oInit \o <<Proc("git remote add", name, oc.remote_add)>>
      oFetch == oRemote \o <<Proc("git fetch", name, oc.fetch)>>
      oCheckout == oFetch \o <<Proc("git checkout", name, oc.checkout)>>
  IN IF AlreadyThere(dir)
     THEN [dir |-> dir, ok |-> TRUE, error |-> <<>>, ops |-> <<>>]
     ELSE IF ~oc.mkdir
     THEN [dir |-> dir, ok |-> FALSE, ops |-> oMkdir,
           error |-> <<"failed to create grammar directory {directory}",
                       "io error">>]
     ELSE IF oc.init = "spawn"
     THEN [dir |-> created, ok |-> FALSE, ops |-> oInit,
           error |-> <<"io error">>]
     ELSE IF oc.init = "nonzero"
     THEN [dir |-> created, ok |-> FALSE, ops |-> oInit,
           error |-> <<ErrInit>>]
     ELSE IF oc.remote_add = "spawn"
     THEN [dir |-> inited, ok |-> FALSE, ops |-> oRemote,
           error |-> <<"failed to execute git remote add", "io error">>]
     ELSE IF oc.remote_add = "nonzero"
     THEN [dir |-> inited, ok |-> FALSE, ops |-> oRemote,
           error |-> <<ErrRemoteAdd>>]
     ELSE IF FetchAborts(oc)
     THEN [dir |-> remoted, ok |-> FALSE, ops |-> oFetch,
           error |-> <<"failed to execute git fetch", "io error">>]
     ELSE IF oc.checkout = "spawn"
     THEN [dir |-> fetched, ok |-> FALSE, ops |-> oCheckout,
           error |-> <<"failed to execute git checkout", "io error">>]
     ELSE IF CheckoutFailed(oc)
     THEN [dir |-> fetched, ok |-> FALSE, ops |-> oCheckout,
           error |-> IF ReportsFetchError(oc) THEN <<ErrFetch>>
                     ELSE <<ErrCheckout>>]
     ELSE [dir |-> checked, ok |-> TRUE, error |-> <<>>, ops |-> oCheckout]

\* -------------------------------------------------------- compile_grammar
\* The outcomes of the steps of one compile_grammar call.
FetchSucceeds(oc) ==
  /\ oc.mkdir /\ oc.init = "ok" /\ oc.remote_add = "ok"
  /\ oc.fetch # "spawn" /\ oc.checkout = "ok"
AllOk == [mkdir |-> TRUE, init |-> "ok", remote_add |-> "ok", fetch |-> "ok",
          checkout |-> "ok"]
GrammarOutcomes ==
  {oc \in [which_clang : BOOLEAN, fetch : FetchOutcomes, clang : Exits] :
     /\ ~oc.which_clang => oc.fetch = AllOk
     /\ ~FetchSucceeds(oc.fetch) => oc.clang = "ok"}

ErrClang == "failed to compile {grammar_name} parser with clang: {stderr}"
PanicWasi == "WASI_LIBC_PATH environment variable not set"

\* A compiler step that ignores the exit status of clang.
ClangFailedNever(oc) == FALSE
\* `if !clang_output.status.success()`
ClangFailed(oc) == oc.clang = "nonzero"

\* compile_grammar(extension_dir, grammar_name, grammar_metadata).  status is
\* "ok", "err" (an Err is returned) or "panic" (the thread panics in
\* `expect`); wasm is the set of compiled grammar modules on disk.
CompileGrammar(dir, wasm, name, entry, wasi_set, oc) ==
  LET co == CheckoutRepo(dir, name, entry.repository, entry.rev, oc.fetch)
      oWhich == <<Op("which clang", name, oc.which_clang)>>
      oFetched == oWhich \o co.ops
      oClang == oFetched \o <<Proc("clang", name, oc.clang)>>
  IN IF ~oc.which_clang
     THEN [status |-> "err", error |-> <<"cannot find binary path">>,
           dir |-> dir, wasm |-> wasm, ops |-> oWhich]
     ELSE IF ~wasi_set
     THEN [status |-> "panic", error |-> <<PanicWasi>>,
           dir |-> dir, wasm |-> wasm, ops |-> oWhich]
     ELSE IF ~co.ok
     THEN [status |-> "err", error |-> co.error,
           dir |-> co.dir, wasm |-> wasm, ops |-> oFetched]
     ELSE IF oc.clang = "spawn"
     THEN [status |-> "err", error |-> <<"failed to run clang", "io error">>,
           dir |-> co.dir, wasm |-> wasm, ops |-> oClang]
     ELSE IF ClangFailed(oc)
     THEN [status |-> "err", error |-> <<ErrClang>>,
           dir |-> co.dir, wasm |-> wasm, ops |-> oClang]
     ELSE [status |-> "ok", error |-> <<>>, dir |-> co.dir,
           wasm |-> IF oc.clang = "ok" THEN wasm \cup {SetExtensionWasm(name)}
                    ELSE wasm,
           ops |-> oClang]

\* ------------------------------------------------- compile_rust_extension
\* The step of compile_rust_extension that fails, if any.
RustFailures ==
  {"none", "read Cargo.toml", "parse Cargo.toml", "spawn cargo", "cargo build",
   "read wasm", "parse version", "write extension.wasm",
   "write_all extension.wasm"}

ErrCargo == "failed to build extension {stderr}"

RustError(f) ==
  CASE f = "read Cargo.toml" -> <<"io error">>
    [] f = "parse Cargo.toml" -> <<"toml parse error">>
    [] f = "spawn cargo" -> <<"failed to run cargo", "io error">>
    [] f = "cargo build" -> <<ErrCargo>>
    [] f = "read wasm" ->
         <<"failed to read component module {wasm_path}", "io error">>
    [] f = "parse version" ->
         <<"compiled wasm did not contain a valid zed extension api version",
           "version error">>
    [] f \in {"write extension.wasm", "write_all extension.wasm"} ->
         <<"failed to write extension.wasm", "io error">>
    [] OTHER -> <<>>

\* The steps that come after the cargo subprocess was run.
AfterCargo == {"cargo build", "read wasm", "parse version",
               "write extension.wasm", "write_all extension.wasm", "none"}
\* A compiler that stores the version once extension.wasm is written.
AfterVersionLate == {"none"}
\* The steps that come after the version was stored in the manifest.
AfterVersion ==
  {"write extension.wasm", "write_all extension.wasm", "none"}

\* Storing the version by building the lib entry anew, its kind left unset.
StoreVersionResetsLib(m) ==
  [m EXCEPT !.version = ParsedVersion, !.kind = NoKind]
\* `manifest.lib.version = Some(wasm_extension_api_version)`
StoreVersion(m) == [m EXCEPT !.version = ParsedVersion]

\* How the cargo subprocess ended when the call fails at step f.
CargoExit(f) ==
  IF f = "spawn cargo" THEN "spawn"
  ELSE IF f = "cargo build" THEN "nonzero" ELSE "ok"

\* A library compiler that ignores the exit status of cargo.
CargoFailedNever(f) == FALSE
\* `if !output.status.success()` after cargo build
CargoFailed(f) == f = "cargo build"

\* compile_rust_extension(extension_dir, manifest, options) failing at step f
\* ("none": it succeeds); ext_wasm is the state of extension.wasm.
CompileRustExtension(m, ext_wasm, f) ==
  LET g == IF f = "cargo build" /\ ~CargoFailed(f) THEN "none" ELSE f
  IN [manifest |-> IF g \in AfterVersion THEN StoreVersion(m) ELSE m,
      ext_wasm |-> IF g = "none" THEN "written"
                   ELSE IF g = "write_all extension.wasm" THEN "partial"
                   ELSE ext_wasm,
      ok |-> g = "none",
      error |-> RustError(g),
      ops |-> IF f \in AfterCargo \cup {"spawn cargo"}
              THEN <<Proc("cargo build", NoName, CargoExit(f))>>
                     \o (IF g \in AfterVersion
                         THEN <<Op("write extension.wasm", NoName, g = "none")>>
                         ELSE <<>>)
              ELSE <<>>]

\* The values a failure message is formatted with (the arguments of its
\* bail! format string).
Carries(msg) ==
  CASE msg = ErrInit -> {"directory"}
    [] msg = ErrRemoteAdd -> {"url", "directory"}
    [] msg = ErrFetch -> {"rev", "directory"}
    [] msg = ErrCheckout -> {"rev", "directory", "stderr"}
    [] msg = ErrClang -> {"grammar_name", "stderr"}
    [] msg = ErrCargo -> {"stderr"}
    [] OTHER -> {}

\* ------------------------------------------------------------------ state
VARIABLES
  pc,           \* where compile_extension stands; "fetcher": checkout_repo alone
  env,          \* extension_dir.is_relative(), WASI_LIBC_PATH set
  disk,         \* the extension directory's source layout
  manifest,     \* the caller's ExtensionManifest (&mut)
  manifest0,    \* the manifest as the caller passed it
  cache_dir,    \* the shared cache directory exists
  ext_wasm,     \* extension.wasm: "absent", "stale", "partial", "written"
  grammar_dirs, \* grammars/<name>/ working directories
  grammar_wasm, \* the grammars/<stem>.wasm files on disk
  todo,         \* the grammars the loop has yet to visit
  result,       \* what compile_extension resolved to
  trace,        \* the steps and subprocesses run so far, in order
  last_fetch,   \* the latest checkout_repo call made on its own
  listed,       \* the listings read_dir gave the latest populate_defaults
  builds,       \* concurrent builds: the state of each compile_extension
  par           \* concurrent builds: what each was called with

vars == <<pc, env, disk, manifest, manifest0, cache_dir, ext_wasm,
          grammar_dirs, grammar_wasm, todo, result, trace, last_fetch,
          listed, builds, par>>

Pending == [status |-> "pending", error |-> <<>>]
NoFetch == [called |-> FALSE]
NoBuilds == [n \in {} |-> 0]
NoListings == [languages |-> Unread, themes |-> Unread,
               icon_themes |-> Unread, grammars |-> Unread]

\* The layout populate_defaults sees: grammars/ also exists when a working
\* directory or a compiled grammar lies in it.
LayoutOf(d, dirs, wasm) ==
  [d EXCEPT !.grammars_dir =
     \/ @
     \/ \E n \in GrammarNames : dirs[n].exists
     \/ wasm # {}]
Layout == LayoutOf(disk, grammar_dirs, grammar_wasm)

\* A directory with the given entries, of which the good ones pass the
\* filter (a config.toml inside, a .json or .toml extension).
Dir(entries, good) == [exists |-> TRUE, entries |-> entries, good |-> good]
Dirs(ids) ==
  {NoDir} \cup
  {d \in [exists : {TRUE}, entries : SUBSET ids, good : SUBSET ids] :
     d.entries # {} /\ d.good \subseteq d.entries}

RelPaths(ids) == {StripPrefix(DirEntryPath(n)) : n \in ids}
Maps(names, values) == UNION {[d -> values] : d \in SUBSET names}

\* --------------------------------------------------------------- actions
Fail(error) == [status |-> "err", error |-> error]

\* compile_extension, line 49: populate_defaults(extension_manifest, ..)?
Normalize ==
  /\ pc = "populate_defaults"
  /\ \E ch \in ListingChoices(manifest, Layout) :
       LET r == PopulateDefaults(manifest, Layout, ch)
       IN /\ manifest' = r.manifest
          /\ trace' = Append(trace, Op("populate_defaults", NoName, r.ok))
          /\ pc' = IF r.ok THEN "check_absolute" ELSE "returned"
          /\ result' = IF r.ok THEN result ELSE Fail(r.error)
          /\ listed' = ch
  /\ UNCHANGED <<env, disk, manifest0, cache_dir, ext_wasm, grammar_dirs,
                 grammar_wasm, todo, last_fetch, builds, par>>

ErrRelative == "extension dir {extension_dir} is not an absolute path"

\* compile_extension, lines 51-56: the absolute-path precondition.
CheckAbsolute ==
  /\ pc = "check_absolute"
  /\ pc' = IF env.relative THEN "returned" ELSE "create_cache_dir"
  /\ result' = IF env.relative THEN Fail(<<ErrRelative>>) ELSE result
  /\ UNCHANGED <<env, disk, manifest, manifest0, cache_dir, ext_wasm,
                 grammar_dirs, grammar_wasm, todo, trace, last_fetch,
                 listed, builds, par>>

\* The grammars loop visits the map's keys in order.
GrammarOrder(m) == SortedNames(DOMAIN m.grammars)

\* A build that goes straight to the grammars.
AfterCacheDirSkipsLibrary(m) == "compile_grammars"
\* `if extension_manifest.lib.kind == Some(ExtensionLibraryKind::Rust)`
AfterCacheDir(m) ==
  IF m.kind = RustKind THEN "compile_rust" ELSE "compile_grammars"

\* fs::create_dir: an existing directory is an error.
CreateDir(exists, creatable) == ~exists /\ creatable
\* fs::create_dir_all: Ok when the directory is there already, else whether
\* the file system lets it be created.
CreateDirAll(exists, creatable) == exists \/ creatable

\* compile_extension, line 58: fs::create_dir_all(&self.cache_dir)
CreateCacheDir ==
  /\ pc = "create_cache_dir"
  /\ \E ok \in {CreateDirAll(cache_dir, creatable) : creatable \in BOOLEAN} :
       /\ cache_dir' = (cache_dir \/ ok)
       /\ trace' = Append(trace, Op("create cache dir", NoName, ok))
       /\ pc' = IF ~ok THEN "returned" ELSE AfterCacheDir(manifest)
       /\ result' = IF ok THEN result
                    ELSE Fail(<<"failed to create cache dir", "io error">>)
       /\ todo' = IF ok /\ AfterCacheDir(manifest) = "compile_grammars"
                  THEN GrammarOrder(manifest) ELSE todo
  /\ UNCHANGED <<env, disk, manifest, manifest0, ext_wasm, grammar_dirs,
                 grammar_wasm, last_fetch, listed, builds, par>>

\* compile_extension, lines 60-66: the library, when lib.kind is Rust.
CompileRust ==
  /\ pc = "compile_rust"
  /\ \E f \in RustFailures :
       /\ ~disk.cargo_toml => f = "read Cargo.toml"
       /\ LET r == CompileRustExtension(manifest, ext_wasm, f)
          IN /\ manifest' = r.manifest
             /\ ext_wasm' = r.ext_wasm
             /\ trace' = trace \o r.ops
                           \o <<Op("compile_rust_extension", NoName, r.ok)>>
             /\ pc' = IF r.ok THEN "compile_grammars" ELSE "returned"
             /\ result' = IF r.ok THEN result
                          ELSE Fail(<<"failed to compile Rust extension">>
                                      \o r.error)
             /\ todo' = IF r.ok THEN GrammarOrder(r.manifest) ELSE todo
  /\ UNCHANGED <<env, disk, manifest0, cache_dir, grammar_dirs, grammar_wasm,
                 last_fetch, listed, builds, par>>

ErrGrammar == "failed to compile grammar '{grammar_name}'"

\* A loop that logs a grammar's error and goes on to the next grammar.
LeavesLoopOnPanicOnly(status) == status = "panic"
\* The `?` after compile_grammar(..).await: anything but Ok leaves the loop.
LeavesLoop(status) == status # "ok"

\* How a compile_grammar call that ended with status is recorded.
GrammarMark(name, status) ==
  IF status = "panic" THEN Op("compile_grammar panicked", name, FALSE)
  ELSE Op("compile_grammar", name, status = "ok")

\* compile_extension, lines 68-80: one iteration of the grammars loop.
CompileNextGrammar ==
  /\ pc = "compile_grammars"
  /\ todo # <<>>
  /\ \E oc \in GrammarOutcomes :
       LET name == Head(todo)
           r == CompileGrammar(grammar_dirs[name], grammar_wasm, name,
                               manifest.grammars[name], env.wasi, oc)
       IN /\ grammar_dirs' = [grammar_dirs EXCEPT ![name] = r.dir]
          /\ grammar_wasm' = r.wasm
          /\ trace' = trace \o r.ops \o <<GrammarMark(name, r.status)>>
          /\ todo' = IF LeavesLoop(r.status) THEN todo ELSE Tail(todo)
          /\ pc' = CASE ~LeavesLoop(r.status) -> pc
                     [] r.status = "panic" -> "panicked"
                     [] OTHER -> "returned"
          /\ result' =
               CASE ~LeavesLoop(r.status) -> result
                 [] r.status = "panic" -> [status |-> "panic", error |-> r.error]
                 [] OTHER -> Fail(<<ErrGrammar, name>> \o r.error)
  /\ UNCHANGED <<env, disk, manifest, manifest0, cache_dir, ext_wasm,
                 last_fetch, listed, builds, par>>

\* compile_extension, lines 82-83: Ok(())
Finish ==
  /\ pc = "compile_grammars"
  /\ todo = <<>>
  /\ pc' = "returned"
  /\ result' = [status |-> "ok", error |-> <<>>]
  /\ UNCHANGED <<env, disk, manifest, manifest0, cache_dir, ext_wasm,
                 grammar_dirs, grammar_wasm, todo, trace, last_fetch,
                 listed, builds, par>>

\* The grammar name every bound has.
PlainName == [stem |-> 1, dot |-> FALSE]

\* checkout_repo called on its own on a directory, for some url and revision.
FetchCall ==
  /\ pc = "fetcher"
  /\ \E name \in {PlainName}, url \in RevIds, rev \in RevIds,
        oc \in FetchOutcomes :
       LET r == CheckoutRepo(grammar_dirs[name], name, url, rev, oc)
       IN /\ grammar_dirs' = [grammar_dirs EXCEPT ![name] = r.dir]
          /\ last_fetch' = [called |-> TRUE, name |-> name, url |-> url,
                            rev |-> rev, before |-> grammar_dirs[name],
                            ok |-> r.ok, error |-> r.error, ops |-> r.ops]
  /\ UNCHANGED <<pc, env, disk, manifest, manifest0, cache_dir, ext_wasm,
                 grammar_wasm, todo, result, trace, listed, builds, par>>

\* ------------------------------------------------------- initial states
ManifestSet(schemas, kinds, versions, langs, themes, icons, grammars, snips) ==
  [schema_v0 : schemas, kind : kinds, version : versions, languages : langs,
   themes : themes, icon_themes : icons, grammars : grammars,
   snippets : snips]

DiskSet(cargo, langs, themes, icons, snips, gdirs, tomls) ==
  {d \in [cargo_toml : cargo, languages : langs, themes : themes,
          icon_themes : icons, snippets_json : snips, grammars_dir : gdirs,
          grammar_tomls : tomls] :
     d.grammar_tomls # EmptyMap => d.grammars_dir}

\* A build: compile_extension is called with some manifest on some layout.
\* The asset directories are either all absent or hold one entry each.
AssetDirs(ids) == {NoDir, Dir({1}, {1})}
Init ==
  /\ pc = "populate_defaults"
  /\ env \in [relative : BOOLEAN, wasi : BOOLEAN]
  /\ disk \in DiskSet(BOOLEAN, AssetDirs(LangIds), AssetDirs(ThemeIds),
                      AssetDirs(ThemeIds), BOOLEAN, BOOLEAN,
                      Maps(GrammarNames, {GrammarEntry(NumRevs)}))
  /\ disk.languages.exists = disk.snippets_json
  /\ disk.themes.exists = disk.snippets_json
  /\ disk.icon_themes.exists = disk.snippets_json
  /\ disk.grammars_dir = (disk.grammar_tomls # EmptyMap)
  /\ manifest \in ManifestSet(BOOLEAN, {NoKind, RustKind},
                              {NoVersion, StaleVersion},
                              {<<>>, <<StripPrefix(DirEntryPath(NumLangs))>>},
                              {<<>>}, {<<>>},
                              Maps(GrammarNames, {GrammarEntry(1)}),
                              {NoSnippets, CallerSnippets})
  /\ (manifest.languages = <<>>) = (manifest.snippets = NoSnippets)
  /\ ~manifest.schema_v0 => disk.grammar_tomls = EmptyMap
  /\ manifest.schema_v0 => DOMAIN manifest.grammars \in {{}, GrammarNames}
  /\ manifest0 = manifest
  /\ cache_dir = FALSE
  /\ ext_wasm \in {"absent", "stale"}
  /\ \E left \in {{}, {PlainName}, GrammarNames} :
       grammar_dirs = [n \in GrammarNames |->
                         IF n \in left THEN LeftoverDir ELSE AbsentDir]
  /\ grammar_wasm = {}
  /\ todo = <<>>
  /\ result = Pending
  /\ trace = <<>>
  /\ last_fetch = NoFetch
  /\ listed = NoListings
  /\ builds = NoBuilds
  /\ par = NoBuilds

Next ==
  \/ Normalize
  \/ CheckAbsolute
  \/ CreateCacheDir
  \/ CompileRust
  \/ CompileNextGrammar
  \/ Finish

Spec == Init /\ [][Next]_vars

\* Normalisation alone: populate_defaults applied to some manifest on some
\* layout.  One of the four collections ranges over every combination of
\* manifest entries and directory contents within the bounds, while each of
\* the others is either empty or holds one entry in the manifest and on disk.
\* The grammars directory is only read for the legacy schema.
PlainAssets == {[m |-> <<>>, d |-> NoDir],
                [m |-> <<StripPrefix(DirEntryPath(1))>>, d |-> Dir({1}, {1})]}
RichAssets(ids) == [m : InjSeqs(RelPaths(ids)), d : Dirs(ids)]
PlainGrammars(v0) ==
  {[m |-> EmptyMap, t |-> EmptyMap],
   [m |-> [n \in {PlainName} |-> GrammarEntry(1)],
    t |-> IF v0 THEN [n \in {PlainName} |-> GrammarEntry(NumRevs)]
          ELSE EmptyMap]}
RichGrammars(v0) ==
  [m : Maps(GrammarNames, {GrammarEntry(1)}),
   t : IF v0 THEN Maps(GrammarNames, {GrammarEntry(NumRevs), Malformed})
       ELSE {EmptyMap}]
NormInputs(v0) ==
  [l : RichAssets(LangIds), t : PlainAssets, i : PlainAssets,
   g : PlainGrammars(v0)]
  \cup [l : PlainAssets, t : RichAssets(ThemeIds), i : PlainAssets,
        g : PlainGrammars(v0)]
  \cup [l : PlainAssets, t : PlainAssets, i : RichAssets(ThemeIds),
        g : PlainGrammars(v0)]
  \cup [l : PlainAssets, t : PlainAssets, i : PlainAssets,
        g : RichGrammars(v0)]

InitNorm ==
  /\ pc = "populate_defaults"
  /\ env = [relative |-> FALSE, wasi |-> TRUE]
  /\ \E v0 \in BOOLEAN, root \in BOOLEAN, gdir \in BOOLEAN :
       \E in \in NormInputs(v0) :
         /\ in.g.t # EmptyMap => gdir
         /\ ~v0 => ~gdir
         /\ disk = [cargo_toml |-> root, languages |-> in.l.d,
                    themes |-> in.t.d, icon_themes |-> in.i.d,
                    snippets_json |-> root, grammars_dir |-> gdir,
                    grammar_tomls |-> in.g.t]
         /\ manifest = [schema_v0 |-> v0, kind |-> NoKind,
                        version |-> NoVersion, languages |-> in.l.m,
                        themes |-> in.t.m, icon_themes |-> in.i.m,
                        grammars |-> in.g.m, snippets |-> CallerSnippets]
  /\ manifest0 = manifest
  /\ cache_dir = FALSE
  /\ ext_wasm = "absent"
  /\ grammar_dirs = [n \in GrammarNames |-> AbsentDir]
  /\ grammar_wasm = {}
  /\ todo = <<>>
  /\ result = Pending
  /\ trace = <<>>
  /\ last_fetch = NoFetch
  /\ listed = NoListings
  /\ builds = NoBuilds
  /\ par = NoBuilds

\* What read_dir can give a second walk of a directory that has not
\* changed: the entries in the order of the first walk, or a failure.
SameListing(first, second) ==
  \/ second.fail = "unread"
  \/ second.fail = "none" /\ second.seq = first.seq
  \/ second.fail = "open"
  \/ second.fail = "entry" /\ IsPrefix(second.seq, first.seq)

\* populate_defaults called a second time on the manifest a successful first
\* call left, over the same disk layout.
NormalizeAgain ==
  /\ pc = "check_absolute"
  /\ \E ch \in ListingChoices(manifest, Layout) :
       /\ SameListing(listed.languages, ch.languages)
       /\ SameListing(listed.themes, ch.themes)
       /\ SameListing(listed.icon_themes, ch.icon_themes)
       /\ SameListing(listed.grammars, ch.grammars)
       /\ LET r == PopulateDefaults(manifest, Layout, ch)
          IN /\ manifest' = r.manifest
             /\ manifest0' = manifest
             /\ trace' = <<Op("populate_defaults", NoName, r.ok)>>
             /\ pc' = "normalized_again"
             /\ result' = IF r.ok THEN result ELSE Fail(r.error)
             /\ listed' = ch
  /\ UNCHANGED <<env, disk, cache_dir, ext_wasm, grammar_dirs, grammar_wasm,
                 todo, last_fetch, builds, par>>

NextNorm == Normalize \/ NormalizeAgain

SpecNorm == InitNorm /\ [][NextNorm]_vars

\* The Repository Fetcher alone: checkout_repo called again and again.
InitFetch ==
  /\ pc = "fetcher"
  /\ env = [relative |-> FALSE, wasi |-> TRUE]
  /\ disk \in DiskSet({FALSE}, {NoDir}, {NoDir}, {NoDir}, {FALSE}, {FALSE},
                      {EmptyMap})
  /\ manifest \in ManifestSet({FALSE}, {NoKind}, {NoVersion}, {<<>>}, {<<>>},
                              {<<>>}, {EmptyMap}, {NoSnippets})
  /\ manifest0 = manifest
  /\ cache_dir = FALSE
  /\ ext_wasm = "absent"
  /\ grammar_dirs = [n \in GrammarNames |-> AbsentDir]
  /\ grammar_wasm = {}
  /\ todo = <<>>
  /\ result = Pending
  /\ trace = <<>>
  /\ last_fetch = NoFetch
  /\ listed = NoListings
  /\ builds = NoBuilds
  /\ par = NoBuilds

NextFetch == FetchCall

SpecFetch == InitFetch /\ [][NextFetch]_vars

\* ------------------------------------------- concurrent compile_extension
\* Several compile_extension calls on one ExtensionBuilder (one cache_dir),
\* each on an extension directory of its own, their stages interleaved.
NumBuilds == 2
Builds == 1..NumBuilds

NoLibrary == "read Cargo.toml"
GrammarOk == [which_clang |-> TRUE, fetch |-> AllOk, clang |-> "ok"]
ClangNonzero == [GrammarOk EXCEPT !.clang = "nonzero"]

\* What a build is called with: its extension directory (relative or not,
\* with a Cargo.toml or not, its manifest declaring a grammar or not) and
\* how the library and grammar steps will end for it.
BuildInput(relative, cargo_toml, f, grammar, goc) ==
  [relative |-> relative, cargo_toml |-> cargo_toml, f |-> f,
   grammar |-> grammar, goc |-> goc]
BuildInputs ==
  {BuildInput(TRUE, FALSE, NoLibrary, FALSE, GrammarOk),
   BuildInput(FALSE, FALSE, NoLibrary, FALSE, GrammarOk),
   BuildInput(FALSE, TRUE, "none", FALSE, GrammarOk),
   BuildInput(FALSE, TRUE, "cargo build", FALSE, GrammarOk),
   BuildInput(FALSE, FALSE, NoLibrary, TRUE, GrammarOk),
   BuildInput(FALSE, TRUE, "none", TRUE, ClangNonzero)}

ManifestOf(in) ==
  [schema_v0 |-> FALSE, kind |-> NoKind, version |-> NoVersion,
   languages |-> <<>>, themes |-> <<>>, icon_themes |-> <<>>,
   grammars |-> IF in.grammar THEN [n \in {PlainName} |-> GrammarEntry(1)]
                ELSE EmptyMap,
   snippets |-> NoSnippets]
DiskOf(in) ==
  [cargo_toml |-> in.cargo_toml, languages |-> NoDir, themes |-> NoDir,
   icon_themes |-> NoDir, snippets_json |-> FALSE, grammars_dir |-> FALSE,
   grammar_tomls |-> EmptyMap]
ListingOf(in) ==
  [languages |-> NoListing, themes |-> NoListing, icon_themes |-> NoListing,
   grammars |-> NoListing]

\* A build as compile_extension is entered.
Start(in) ==
  [pc |-> "populate_defaults", manifest |-> ManifestOf(in),
   ext_wasm |-> "absent", grammar_dirs |-> [n \in GrammarNames |-> AbsentDir],
   grammar_wasm |-> {}, todo |-> <<>>, result |-> Pending]
Done(s) == s.pc \in {"returned", "panicked"}

\* One stage of compile_extension for the build in state s, called with in,
\* when the cache directory exists or not (cache): the build's next state
\* and whether the cache directory exists afterwards.
BuildStep(s, in, cache, creatable, wasi) ==
  CASE s.pc = "populate_defaults" ->
         LET r == PopulateDefaults(
                    s.manifest,
                    LayoutOf(DiskOf(in), s.grammar_dirs, s.grammar_wasm),
                    ListingOf(in))
         IN [s |-> [s EXCEPT !.manifest = r.manifest,
                             !.pc = IF r.ok THEN "check_absolute"
                                    ELSE "returned",
                             !.result = IF r.ok THEN @ ELSE Fail(r.error)],
             cache |-> cache]
    [] s.pc = "check_absolute" ->
         [s |-> IF in.relative
                THEN [s EXCEPT !.pc = "returned",
                               !.result = Fail(<<ErrRelative>>)]
                ELSE [s EXCEPT !.pc = "create_cache_dir"],
          cache |-> cache]
    [] s.pc = "create_cache_dir" ->
         LET ok == CreateDirAll(cache, creatable)
         IN [s |-> IF ~ok
                   THEN [s EXCEPT
                           !.pc = "returned",
                           !.result = Fail(<<"failed to create cache dir",
                                             "io error">>)]
                   ELSE [s EXCEPT
                           !.pc = AfterCacheDir(s.manifest),
                           !.todo =
                              IF AfterCacheDir(s.manifest) = "compile_grammars"
                              THEN GrammarOrder(s.manifest) ELSE @],
             cache |-> cache \/ ok]
    [] s.pc = "compile_rust" ->
         LET r == CompileRustExtension(s.manifest, s.ext_wasm, in.f)
         IN [s |-> [s EXCEPT
                      !.manifest = r.manifest,
                      !.ext_wasm = r.ext_wasm,
                      !.pc = IF r.ok THEN "compile_grammars" ELSE "returned",
                      !.result =
                         IF r.ok THEN @
                         ELSE Fail(<<"failed to compile Rust extension">>
                                     \o r.error),
                      !.todo = IF r.ok THEN GrammarOrder(r.manifest) ELSE @],
             cache |-> cache]
    [] s.pc = "compile_grammars" /\ s.todo = <<>> ->
         [s |-> [s EXCEPT !.pc = "returned",
                          !.result = [status |-> "ok", error |-> <<>>]],
          cache |-> cache]
    [] s.pc = "compile_grammars" /\ s.todo # <<>> ->
         LET name == Head(s.todo)
             r == CompileGrammar(s.grammar_dirs[name], s.grammar_wasm, name,
                                 s.manifest.grammars[name], wasi, in.goc)
         IN [s |-> [s EXCEPT
                      !.grammar_dirs = [@ EXCEPT ![name] = r.dir],
                      !.grammar_wasm = r.wasm,
                      !.todo = IF LeavesLoop(r.status) THEN @ ELSE Tail(@),
                      !.pc = CASE ~LeavesLoop(r.status) -> @
                               [] r.status = "panic" -> "panicked"
                               [] OTHER -> "returned",
                      !.result =
                         CASE ~LeavesLoop(r.status) -> @
                           [] r.status = "panic" ->
                                [status |-> "panic", error |-> r.error]
                           [] OTHER -> Fail(<<ErrGrammar, name>> \o r.error)],
             cache |-> cache]
    [] OTHER -> [s |-> s, cache |-> cache]

\* The most stages a build goes through.
MaxStages == 5 + Cardinality(GrammarNames)

\* compile_extension run from state s to its end with no other build about.
RECURSIVE RunAlone(_, _, _, _, _, _)
RunAlone(s, in, cache, creatable, wasi, fuel) ==
  IF Done(s) \/ fuel = 0 THEN s
  ELSE LET r == BuildStep(s, in, cache, creatable, wasi)
       IN RunAlone(r.s, in, r.cache, creatable, wasi, fuel - 1)

\* One of the concurrent builds runs its next stage.
ParStep(b) ==
  /\ pc = "concurrent"
  /\ ~Done(builds[b])
  /\ LET r == BuildStep(builds[b], par.in[b], cache_dir, par.creatable,
                        env.wasi)
     IN /\ builds' = [builds EXCEPT ![b] = r.s]
        /\ cache_dir' = r.cache
  /\ UNCHANGED <<pc, env, disk, manifest, manifest0, ext_wasm, grammar_dirs,
                 grammar_wasm, todo, result, trace, last_fetch, listed, par>>

InitPar ==
  /\ pc = "concurrent"
  /\ env \in [relative : {FALSE}, wasi : BOOLEAN]
  /\ disk \in DiskSet({FALSE}, {NoDir}, {NoDir}, {NoDir}, {FALSE}, {FALSE},
                      {EmptyMap})
  /\ manifest \in ManifestSet({FALSE}, {NoKind}, {NoVersion}, {<<>>}, {<<>>},
                              {<<>>}, {EmptyMap}, {NoSnippets})
  /\ manifest0 = manifest
  /\ cache_dir \in BOOLEAN
  /\ ext_wasm = "absent"
  /\ grammar_dirs = [n \in GrammarNames |-> AbsentDir]
  /\ grammar_wasm = {}
  /\ todo = <<>>
  /\ result = Pending
  /\ trace = <<>>
  /\ last_fetch = NoFetch
  /\ listed = NoListings
  /\ par \in [in : [Builds -> BuildInputs], creatable : BOOLEAN,
               cache0 : {cache_dir}]
  /\ builds = [b \in Builds |-> Start(par.in[b])]

NextPar == \E b \in Builds : ParStep(b)

SpecPar == InitPar /\ [][NextPar]_vars

\* ----------------------------------------------------------- properties
Returned == pc = "returned"
Succeeded == result.status = "ok"
Ran(op) == \E i \in DOMAIN trace : trace[i].op = op
RanOk(op) == \E i \in DOMAIN trace : trace[i].op = op /\ trace[i].ok
NormalizedOk == RanOk("populate_defaults")

\* The operations the Repository Fetcher and the Grammar Compiler run.
FetcherOps == {"create_dir_all", "git init", "git remote add", "git fetch",
               "git checkout"}
SubprocessOps == {"cargo build", "git init", "git remote add", "git fetch",
                  "git checkout", "clang"}
FsMutations == {"create cache dir", "create_dir_all", "write extension.wasm"}
               \cup SubprocessOps
GrammarOps == FetcherOps \cup {"which clang", "clang", "compile_grammar",
                                "compile_grammar panicked"}

\* C1 (as claimed): after a successful compile_extension, lib.version is Some
\* if lib.kind is Rust and None if it is not, whatever version the caller's
\* manifest carried before the build.
C1_VersionIffRust ==
  Succeeded => ((manifest.kind = RustKind) <=> (manifest.version # NoVersion))

\* C2 (as claimed): a relative extension directory makes compile_extension
\* fail at its precondition check with the not-an-absolute-path error, before
\* any filesystem mutation or subprocess and with the caller's manifest
\* untouched.
C2_RelativeNoSideEffects ==
  (env.relative /\ NormalizedOk /\ Returned) =>
     /\ result = Fail(<<ErrRelative>>)
     /\ \A i \in DOMAIN trace : trace[i].op \notin FsMutations
     /\ ~cache_dir
     /\ manifest = manifest0

\* What the latest checkout_repo call asked for is checked out at its
\* directory.
RequestedCheckedOut ==
  LET dir == grammar_dirs[last_fetch.name]
  IN dir.exists /\ dir.remote = last_fetch.url /\ dir.head = last_fetch.rev

\* C3 (as claimed): whenever checkout_repo reports success for (directory,
\* url, rev), that revision of that repository is checked out at the
\* directory, whatever earlier calls did to the directory.
C3_SuccessMeansCheckedOut ==
  (last_fetch.called /\ last_fetch.ok) => RequestedCheckedOut

\* C3 (amended): whenever checkout_repo reports success on a directory that
\* did not exist when it was called, the requested revision of the requested
\* repository is checked out there; on a directory that existed it reports
\* success and leaves whatever earlier calls left.
C3_FreshSuccessMeansCheckedOut ==
  (last_fetch.called /\ last_fetch.ok) =>
     IF last_fetch.before.exists
     THEN grammar_dirs[last_fetch.name] = last_fetch.before
     ELSE RequestedCheckedOut

C3_Witness ==
  /\ last_fetch.called /\ last_fetch.ok /\ ~last_fetch.before.exists
  /\ last_fetch.ops # <<>>
  /\ RequestedCheckedOut

\* C4: a checkout_repo call on a directory that exists reports success, runs
\* no operation and changes nothing, whatever the directory holds; and no
\* call removes a directory, so this holds for every call after the one that
\* created it, a failed one included.
C4_ExistingDirIsNoOp ==
  /\ [](last_fetch.called /\ last_fetch.before.exists =>
          /\ last_fetch.ok
          /\ last_fetch.ops = <<>>
          /\ grammar_dirs[last_fetch.name] = last_fetch.before)
  /\ [][\A n \in GrammarNames :
          grammar_dirs[n].exists => grammar_dirs'[n] = grammar_dirs[n]]_vars

\* A call that succeeded without work on the leftover of a failed fetch.
C4_Witness ==
  /\ last_fetch.called /\ last_fetch.ok /\ last_fetch.ops = <<>>
  /\ last_fetch.before.exists /\ last_fetch.before.head = 0
  /\ last_fetch.before.inited

\* Position of the first step of the trace that satisfies P, 0 if none.
FailedRust(i) == trace[i] = Op("compile_rust_extension", NoName, FALSE)
FailedGrammar(i) ==
  trace[i].op \in {"compile_grammar", "compile_grammar panicked"}
    /\ ~trace[i].ok

C6_ArtifactsExist ==
  Succeeded =>
     /\ ext_wasm # "absent"
     /\ \A n \in DOMAIN manifest.grammars : NameDotWasm(n) \in grammar_wasm

\* C6 (amended): whenever compile_extension returns success, extension.wasm
\* has been written at the extension root if lib.kind is Rust, and for every
\* grammar name of the manifest the file grammars/<name> with its extension
\* set to wasm exists: grammars/<name>.wasm for a name without a dot.
C6_BuiltArtifactsExist ==
  Succeeded =>
     /\ manifest.kind = RustKind => ext_wasm = "written"
     /\ \A n \in DOMAIN manifest.grammars :
          /\ SetExtensionWasm(n) \in grammar_wasm
          /\ ~n.dot => NameDotWasm(n) \in grammar_wasm

C6_Witness ==
  /\ Succeeded /\ manifest.kind = RustKind /\ ext_wasm = "written"
  /\ \E n \in DOMAIN manifest.grammars : ~n.dot /\ NameDotWasm(n) \in grammar_wasm

NoDuplicates(s) == \A i, j \in DOMAIN s : s[i] = s[j] => i = j
\* t is s with entries appended that s did not have.
OnlyAppended(s, t) ==
  /\ IsPrefix(s, t)
  /\ \A i \in DOMAIN t : i > Len(s) =>
       /\ ~Contains(s, t[i])
       /\ \A j \in DOMAIN t : t[j] = t[i] => j = i

\* C7: for a manifest with a non-legacy schema, populate_defaults removes no
\* entry of languages, themes, icon_themes or grammars: each collection keeps
\* its entries as they were and only gains entries it did not have.
C7_NonLegacyKeepsEntries ==
  (~manifest0.schema_v0 /\ Ran("populate_defaults")) =>
     /\ OnlyAppended(manifest0.languages, manifest.languages)
     /\ OnlyAppended(manifest0.themes, manifest.themes)
     /\ OnlyAppended(manifest0.icon_themes, manifest.icon_themes)
     /\ \A n \in DOMAIN manifest0.grammars :
          n \in DOMAIN manifest.grammars
            /\ manifest.grammars[n] = manifest0.grammars[n]

\* populate_defaults kept an entry that is not on disk and appended one.
C7_Witness ==
  /\ ~manifest0.schema_v0 /\ NormalizedOk
  /\ Len(manifest0.languages) = 1
  /\ Len(manifest.languages) > 1
  /\ manifest0.languages[1].n \notin disk.languages.good
  /\ manifest0.themes # <<>> /\ manifest0.grammars # EmptyMap

\* The relative paths of the entries of a directory that pass the filter.
DerivedPaths(dir) == RelPaths(dir.good)

\* C8: for a legacy manifest, a successful populate_defaults leaves in
\* languages, themes and grammars exactly what the disk yields (language
\* directories with a config.toml, .json files of themes/, .toml files of
\* grammars/); what these collections held before is gone.
C8_LegacyReplacedFromDisk ==
  (manifest0.schema_v0 /\ NormalizedOk) =>
     /\ Range(manifest.languages) = DerivedPaths(disk.languages)
     /\ NoDuplicates(manifest.languages)
     /\ Range(manifest.themes) = DerivedPaths(disk.themes)
     /\ NoDuplicates(manifest.themes)
     /\ manifest.grammars = disk.grammar_tomls

\* Pre-existing entries that are not on disk were discarded.
C8_Witness ==
  /\ manifest0.schema_v0 /\ NormalizedOk
  /\ manifest0.languages # <<>>
  /\ ~Contains(manifest.languages, manifest0.languages[1])
  /\ manifest.languages # <<>>
  /\ disk.languages.entries # disk.languages.good
  /\ manifest0.themes # <<>>
  /\ \E n \in DOMAIN manifest0.grammars :
       manifest.grammars[n] # manifest0.grammars[n]

\* C9 (as claimed): for a legacy manifest, a grammar declared in the source
\* manifest wins over grammars/<name>.toml: after populate_defaults the entry
\* under that name is the declared one.
C9_ManualGrammarWins ==
  (manifest0.schema_v0 /\ NormalizedOk) =>
     \A n \in DOMAIN manifest0.grammars \cap DOMAIN disk.grammar_tomls :
        n \in DOMAIN manifest.grammars
          /\ manifest.grammars[n] = manifest0.grammars[n]

\* C9 (amended): for a legacy manifest, a grammar declared in the source
\* manifest does not survive populate_defaults: the entry under its name is
\* afterwards the one parsed from grammars/<name>.toml, and there is none if
\* that file does not exist.
C9_DiskGrammarWins ==
  (manifest0.schema_v0 /\ NormalizedOk) =>
     \A n \in DOMAIN manifest0.grammars :
        IF n \in DOMAIN disk.grammar_tomls
        THEN n \in DOMAIN manifest.grammars
               /\ manifest.grammars[n] = disk.grammar_tomls[n]
        ELSE n \notin DOMAIN manifest.grammars

C9_Witness ==
  /\ manifest0.schema_v0 /\ NormalizedOk
  /\ \E n \in DOMAIN manifest0.grammars \cap DOMAIN disk.grammar_tomls :
       /\ manifest.grammars[n] = disk.grammar_tomls[n]
       /\ manifest.grammars[n] # manifest0.grammars[n]
  /\ \E n \in DOMAIN manifest0.grammars : n \notin DOMAIN manifest.grammars

\* C10 (as claimed): with WASI_LIBC_PATH unset, a build that gets to compile a
\* grammar ends by returning an error that names the variable, before the
\* Repository Fetcher or a compiler subprocess runs for that grammar.
C10_UnsetSysrootIsAnError ==
  (~env.wasi /\ RanOk("which clang")) =>
     /\ Returned /\ result.status = "err"
     /\ \E i \in DOMAIN result.error : result.error[i] = PanicWasi
     /\ \A i \in DOMAIN trace : trace[i].op \notin FetcherOps \cup {"clang"}

\* ------------------------------------------------------------------ C11
\* How the subprocess op of the latest checkout_repo call ended ("none": it
\* was not run).
FetchExit(op) ==
  IF \E i \in 1..Len(last_fetch.ops) : last_fetch.ops[i].op = op
  THEN (CHOOSE o \in Range(last_fetch.ops) : o.op = op).exit
  ELSE "none"

\* C11: when checkout_repo on a fresh directory sees git checkout exit
\* non-zero, the call fails; if git fetch had exited non-zero too the error
\* is the fetch failure, and if git fetch had succeeded the error is the
\* checkout failure, which names the revision and the directory and carries
\* checkout's stderr, and is not the fetch-failure message.
C11_CheckoutFailureReport ==
  (/\ last_fetch.called
   /\ ~last_fetch.before.exists
   /\ FetchExit("git checkout") = "nonzero")
  => /\ ~last_fetch.ok
     /\ FetchExit("git fetch") \in {"ok", "nonzero"}
     /\ FetchExit("git fetch") = "nonzero" => last_fetch.error = <<ErrFetch>>
     /\ FetchExit("git fetch") = "ok" =>
          /\ last_fetch.error = <<ErrCheckout>>
          /\ {"rev", "directory", "stderr"}
               \subseteq Carries(last_fetch.error[1])
          /\ ErrFetch \notin Range(last_fetch.error)

\* A fresh call whose fetch succeeded and whose checkout exited non-zero.
C11_Witness ==
  /\ last_fetch.called
  /\ ~last_fetch.before.exists
  /\ FetchExit("git fetch") = "ok"
  /\ FetchExit("git checkout") = "nonzero"
  /\ last_fetch.error = <<ErrCheckout>>

\* ------------------------------------------------------------------ C12
\* A manifest path that is relative to the extension root and names an entry
\* of the directory dir of the layout.
RelativeAndExists(p, dir) == ~p.prefixed /\ p.n \in dir.entries

\* C12 (as claimed): after a successful populate_defaults every path in
\* languages, themes and icon_themes is relative to the extension root and
\* exists on disk, whatever the schema and the entries the manifest had.
C12_AllPathsRelativeAndExist ==
  NormalizedOk =>
    /\ \A p \in Range(manifest.languages) :
         RelativeAndExists(p, disk.languages)
    /\ \A p \in Range(manifest.themes) : RelativeAndExists(p, disk.themes)
    /\ \A p \in Range(manifest.icon_themes) :
         RelativeAndExists(p, disk.icon_themes)

\* The entries of a collection that populate_defaults did not look at: all
\* of icon_themes, and languages and themes unless the schema is legacy.
KeptLanguages == IF manifest0.schema_v0 THEN <<>> ELSE manifest0.languages
KeptThemes == IF manifest0.schema_v0 THEN <<>> ELSE manifest0.themes
KeptIconThemes == manifest0.icon_themes
AddedRelativeAndExist(kept, coll, dir) ==
  /\ IsPrefix(kept, coll)
  /\ \A i \in DOMAIN coll : i > Len(kept) => RelativeAndExists(coll[i], dir)

\* C12 (amended): after a successful populate_defaults every path that
\* populate_defaults itself put into languages, themes or icon_themes is
\* relative to the extension root and exists on disk; the entries it kept
\* (all of a non-legacy manifest's, and icon_themes' of any manifest) stay as
\* the caller gave them, on disk or not.
C12_AddedPathsRelativeAndExist ==
  NormalizedOk =>
    /\ AddedRelativeAndExist(KeptLanguages, manifest.languages, disk.languages)
    /\ AddedRelativeAndExist(KeptThemes, manifest.themes, disk.themes)
    /\ AddedRelativeAndExist(KeptIconThemes, manifest.icon_themes,
                             disk.icon_themes)

\* A kept entry that is not on disk next to an entry taken from the disk.
C12_Witness ==
  /\ NormalizedOk
  /\ ~manifest0.schema_v0
  /\ Len(manifest0.languages) = 1
  /\ Len(manifest.languages) = 2
  /\ ~RelativeAndExists(manifest.languages[1], disk.languages)
  /\ RelativeAndExists(manifest.languages[2], disk.languages)

\* ------------------------------------------------------------------ C13
\* C13: once populate_defaults has returned, no later step of the build
\* changes a field of the manifest other than lib.version.
C13_OnlyVersionChangesLater ==
  [][pc # "populate_defaults" =>
       manifest' = [manifest EXCEPT !.version = manifest'.version]]_vars

\* A build that compiled the library and a grammar after normalization
\* had filled in the manifest.
C13_Witness ==
  /\ Returned /\ Succeeded
  /\ manifest.version = ParsedVersion
  /\ manifest0.version # ParsedVersion
  /\ RanOk("compile_grammar")
  /\ manifest.languages # manifest0.languages

\* ------------------------------------------------------------------ C14
\* The messages of the error chain compile_extension returned (a grammar's
\* context is followed by the grammar's name, which is left out here).
ErrorTexts ==
  IF result.error # <<>> /\ Head(result.error) = ErrGrammar
  THEN {ErrGrammar} \cup {result.error[i] : i \in 3..Len(result.error)}
  ELSE Range(result.error)
CarriesStderr == \E msg \in ErrorTexts : "stderr" \in Carries(msg)
Fatal == Returned /\ result.status = "err"
\* The i-th step of the build is a subprocess that exited non-zero.
NonzeroExit(i) ==
  trace[i].op \in SubprocessOps /\ trace[i].exit = "nonzero"

\* C14 (as claimed): a non-zero exit of any subprocess (cargo build, clang,
\* git init, git remote add, git fetch, git checkout) is fatal for the build
\* and the error returned includes the subprocess's captured stderr.
C14_NonzeroExitFatalWithStderr ==
  \A i \in DOMAIN trace : NonzeroExit(i) => Fatal /\ CarriesStderr

\* The subprocesses whose failure message is formatted with their stderr.
ReportStderr == {"cargo build", "clang", "git checkout"}

\* C14 (amended): a non-zero exit of cargo build, clang, git init, git
\* remote add or git checkout is fatal for the build; a non-zero git fetch
\* is followed by git checkout and is fatal only if that exits non-zero too.
\* The error carries the captured stderr for cargo build, clang and for git
\* checkout after a fetch that succeeded; the errors for git init, git
\* remote add and a failed fetch carry no stderr.
C14_FatalExitsAndTheirStderr ==
  \A i \in DOMAIN trace : NonzeroExit(i) =>
    IF trace[i].op = "git fetch"
    THEN /\ i + 1 \in DOMAIN trace
         /\ trace[i + 1].op = "git checkout"
         /\ trace[i + 1].exit = "nonzero" => Fatal /\ ~CarriesStderr
         /\ trace[i + 1].exit = "ok" =>
              i + 2 \in DOMAIN trace /\ trace[i + 2].op = "clang"
    ELSE /\ Fatal
         /\ CarriesStderr <=>
              /\ trace[i].op \in ReportStderr
              /\ trace[i].op = "git checkout" => trace[i - 1].exit = "ok"

\* A build that ended because cargo build exited non-zero.
C14_Witness ==
  /\ Fatal /\ CarriesStderr
  /\ \E i \in DOMAIN trace : NonzeroExit(i) /\ trace[i].op = "cargo build"

\* ------------------------------------------------------------------ C15
\* The contexts compile_extension and populate_defaults attach to an error,
\* by the stage they name.
StageContexts ==
  {ErrRelative, "failed to create cache dir",
   "failed to compile Rust extension", ErrGrammar,
   "failed to list languages dir", "failed to list themes dir",
   "failed to list icon themes dir", "failed to list grammars dir"}

\* C15 (as claimed): whichever stage a failure of compile_extension comes
\* from, the error returned is wrapped with a context that names the stage
\* and, for a grammar, the grammar's name.
C15_FailureNamesStage ==
  Fatal =>
    /\ Head(result.error) \in StageContexts
    /\ Head(result.error) = ErrGrammar =>
         result.error[2] \in DOMAIN manifest.grammars

\* ------------------------------------------------------------------ C17
\* The steps of the Native Library Compiler.
RustOps == {"cargo build", "write extension.wasm", "compile_rust_extension"}
\* The steps that end a compile_grammar call.
GrammarMarks == {"compile_grammar", "compile_grammar panicked"}

\* C17: within one build the stages run one after the other: normalization
\* first, then the library (if and only if lib.kind is Rust), then the
\* grammars one at a time, each done before the next is begun and none
\* visited twice, then the build finishes.
C17_StagesInSequence ==
  /\ \A i \in DOMAIN trace :
       (trace[i].op = "populate_defaults") = (i = 1)
  /\ Len(trace) > 1 => trace[1].ok
  /\ \A i \in DOMAIN trace :
       trace[i].op \in RustOps =>
         /\ manifest.kind = RustKind
         /\ \A j \in 1..i : trace[j].op \notin GrammarOps
  /\ (manifest.kind = RustKind
        /\ (Succeeded \/ \E j \in DOMAIN trace : trace[j].op \in GrammarOps))
       => RanOk("compile_rust_extension")
  /\ \A i \in DOMAIN trace :
       trace[i].op \in GrammarOps =>
         /\ (i > 1 /\ trace[i - 1].op \in GrammarOps
               /\ trace[i - 1].arg # trace[i].arg)
              => trace[i - 1] = Op("compile_grammar", trace[i - 1].arg, TRUE)
         /\ trace[i].op \in GrammarMarks =>
              \A j \in 1..(i - 1) :
                trace[j].op \in GrammarMarks => trace[j].arg # trace[i].arg
         /\ \A j \in (i + 1)..Len(trace) : trace[j].op \in GrammarOps
         /\ \E j \in i..Len(trace) :
              trace[j].op \in GrammarMarks /\ trace[j].arg = trace[i].arg
  /\ Succeeded =>
       \A n \in DOMAIN manifest.grammars :
         \E i \in DOMAIN trace : trace[i] = Op("compile_grammar", n, TRUE)

\* A finished build that compiled the library and then two grammars.
C17_Witness ==
  /\ Returned /\ Succeeded
  /\ RanOk("compile_rust_extension")
  /\ \E i, j \in DOMAIN trace :
       /\ i < j
       /\ trace[i].op = "clang" /\ trace[j].op = "clang"
       /\ trace[i].arg # trace[j].arg

\* ------------------------------------------------------------------ C18
\* A second populate_defaults call has returned.
NormalizedAgain == pc = "normalized_again"

\* C18: over an unchanged disk layout, a second successful populate_defaults
\* leaves the manifest equal to what the first successful call left, and no
\* call adds to languages, themes or icon_themes a path the collection
\* already holds.
C18_NormalizationIdempotent ==
  /\ (NormalizedAgain /\ NormalizedOk) => manifest = manifest0
  /\ Ran("populate_defaults") =>
       /\ NoDuplicates(manifest.languages)
       /\ NoDuplicates(manifest.themes)
       /\ NoDuplicates(manifest.icon_themes)

\* A second call on a legacy manifest that the first call had filled with
\* two languages from the disk.
C18_Witness ==
  /\ NormalizedAgain /\ NormalizedOk
  /\ manifest.schema_v0
  /\ Len(manifest.languages) = 2
  /\ manifest.grammars # EmptyMap

\* ------------------------------------------------------------------ C19
\* The error compile_rust_extension returned, under compile_extension's
\* context, when the library stage failed.
ErrRust == "failed to compile Rust extension"
WriteFailed(error) ==
  error = <<ErrRust>> \o RustError("write extension.wasm")

\* C19: extension.wasm is written only after the version was parsed and
\* stored.  When the library stage fails before the write (cargo, reading
\* the binary, parsing the version) neither lib.version nor extension.wasm
\* changes; when only the final write fails, lib.version is already set and
\* extension.wasm is not written; when the stage succeeds both are set.
C19_WasmWrittenAfterVersion ==
  /\ [](ext_wasm = "written" => manifest.version = ParsedVersion)
  /\ [][pc = "compile_rust" =>
          IF pc' # "returned"
          THEN manifest'.version = ParsedVersion /\ ext_wasm' = "written"
          ELSE IF WriteFailed(result'.error)
          THEN manifest'.version = ParsedVersion /\ ext_wasm' # "written"
          ELSE manifest' = manifest /\ ext_wasm' = ext_wasm]_vars

\* The write of extension.wasm failed after the version was stored.
C19_Witness ==
  /\ Fatal /\ WriteFailed(result.error)
  /\ manifest.version = ParsedVersion
  /\ manifest0.version = StaleVersion
  /\ ext_wasm = "stale"

\* ------------------------------------------------------------------ C20
\* C20: on a fresh directory, once git fetch could be run, git checkout is
\* run whether fetch exited zero or not, and a non-zero fetch alone does not
\* fail the call: when checkout then exits zero, checkout_repo succeeds.
C20_FetchFailureAloneNotFatal ==
  (last_fetch.called /\ FetchExit("git fetch") \in {"ok", "nonzero"}) =>
     /\ FetchExit("git checkout") # "none"
     /\ (FetchExit("git fetch") = "nonzero"
          /\ FetchExit("git checkout") = "ok") => last_fetch.ok

\* A call that succeeded although its fetch exited non-zero.
C20_Witness ==
  /\ last_fetch.called /\ last_fetch.ok
  /\ ~last_fetch.before.exists
  /\ FetchExit("git fetch") = "nonzero"
  /\ FetchExit("git checkout") = "ok"

\* ------------------------------------------------------------------ C16
\* What the build b ends as when it runs with no other build about, from
\* the state of the cache directory the concurrent builds began with.
Alone(b) ==
  RunAlone(Start(par.in[b]), par.in[b], par.cache0, par.creatable, env.wasi,
           MaxStages)

\* C16: of builds run concurrently on extension directories of their own
\* with one cache directory, each ends with the result, manifest and
\* artifacts it ends with when run alone; the one thing they share, the
\* cache directory, is only ever created, and creating it again is Ok.
C16_ConcurrentAsAlone ==
  /\ \A b \in Builds : Done(builds[b]) => builds[b] = Alone(b)
  /\ par.cache0 => cache_dir

\* Two builds ran to their end on a cache directory that was not there
\* before; both got past the cache directory and one compiled a grammar.
C16_Witness ==
  /\ \A b \in Builds : Done(builds[b])
  /\ ~par.cache0 /\ cache_dir
  /\ \A b \in Builds : builds[b].result.status = "ok"
  /\ \E b \in Builds : builds[b].grammar_wasm # {}
  /\ \E b \in Builds : builds[b].ext_wasm = "written"

====
